---- MODULE Spec2Model ----
(***************************************************************************)
(* A model of bosdyn.client.sdk: the Sdk settings object (app token,       *)
(* robot certificate, request processors, service-client registry and the  *)
(* address-keyed cache of Robot objects) with one action per method.       *)
(*                                                                         *)
(* Python objects are modelled by value; the Robot objects, whose identity *)
(* matters, live in the sequence `objects` and are referred to by index.   *)
(* Exceptions are modelled by the `error` field of `ret`, the outcome of   *)
(* the most recent call.                                                   *)
(***************************************************************************)
EXTENDS Integers, Sequences, FiniteSets, TLC

VARIABLES
    app_token,                          \* Sdk.app_token
    cert,                               \* Sdk.cert
    request_processors,                 \* Sdk.request_processors
    service_client_factories_by_type,   \* Sdk.service_client_factories_by_type
    service_type_by_name,               \* Sdk.service_type_by_name
    robots,                             \* Sdk.robots: address -> index into objects
    objects,                            \* the Robot objects constructed so far
    ret,                                \* outcome of the most recent call
    lastByType,                         \* history: type -> factory of the latest registration of that type
    lastByName,                         \* history: name -> factory and type of the latest registration of that name
    firstCreated,                       \* history: address -> first successful create_robot for it
    ops,                                \* number of calls made so far
    threads,                            \* the position of each thread inside create_robot
    lock,                               \* the holder of a lock around create_robot, if there is a lock
    DEFAULT_SERVICE_CLIENTS             \* the module-level list _DEFAULT_SERVICE_CLIENTS

vars == <<app_token, cert, request_processors, service_client_factories_by_type,
          service_type_by_name, robots, objects, ret, lastByType, lastByName,
          firstCreated, ops, threads, lock, DEFAULT_SERVICE_CLIENTS>>

history == <<lastByType, lastByName, firstCreated>>

-----------------------------------------------------------------------------
(* Bounds of the model. *)

\* Calls made on the Sdk in one behaviour.
MaxOps == 4

\* Longest request_processors list.
MaxProcessors == 2

-----------------------------------------------------------------------------
(* Values. *)

\* Python's None; also stands for any falsy argument ('' for a str).
None == "None"

\* A class attribute the creation_func does not have.
NoAttr == "NoAttr"

\* The empty dict.
EmptyDict == [k \in {} |-> None]

\* Mutant: d.setdefault(k, v), which keeps an entry that exists.
SetItem_setdefault(d, k, v) == [x \in (DOMAIN d) \cup {k} |-> IF x \in DOMAIN d THEN d[x] ELSE v]

\* Mutant: d = {k: v}, which drops the other entries.
SetItem_rebuilt(d, k, v) == [x \in {k} |-> v]

\* d[k] = v on a dict.
SetItem(d, k, v) == [x \in (DOMAIN d) \cup {k} |-> IF x = k THEN v ELSE d[x]]

\* An argument of a call, or the default that stands in for it when omitted.
Given(arg, default) == IF arg = None THEN default ELSE arg

\* The history h with v noted as the latest entry for k.
Noted(h, k, v) == [x \in (DOMAIN h) \cup {k} |-> IF x = k THEN v ELSE h[x]]

Addresses == {"192.168.80.3", "192.168.80.4"}
RobotNames == {"Robot-A", "Robot-B"}
ServiceNames == {"auth", "image"}
ServiceTypes == {"AuthService", "ImageService"}
Processors == {"AddRequestHeader", "AppTokenProcessor"}

\* Callables handed to register_service_client, with the class attributes
\* they carry (NoAttr: reading the attribute raises AttributeError).
CreationFuncs ==
    { [id |-> "AuthClient",  default_service_name |-> "auth",  service_type |-> "AuthService"],
      [id |-> "ImageClient", default_service_name |-> "image", service_type |-> "ImageService"],
      [id |-> "NamedOnly",   default_service_name |-> "image", service_type |-> NoAttr],
      [id |-> "function",    default_service_name |-> NoAttr,  service_type |-> NoAttr] }

\* The service clients create_standard_sdk is given on top of the defaults.
ExtensionClients ==
    { [id |-> "MissionClient",  default_service_name |-> "mission",   service_type |-> "MissionService"],
      [id |-> "GraphNavClient", default_service_name |-> "graph-nav", service_type |-> "GraphNavService"] }

\* _DEFAULT_SERVICE_CLIENTS as the module defines it.
DefaultServiceClients ==
    << [id |-> "AuthClient",  default_service_name |-> "auth",  service_type |-> "AuthService"],
       [id |-> "ImageClient", default_service_name |-> "image", service_type |-> "ImageService"] >>

\* The threads that call create_robot.
Threads == {"t1", "t2"}

\* The value of lock when create_robot is called under no lock, and when a
\* lock is there and free.
NoLock == "NoLock"
Free == "Free"

\* Sdk.cert is None or a bytes object.
CertNone == [none |-> TRUE, bytes |-> <<>>]
Bytes(b) == [none |-> FALSE, bytes |-> b]

\* No Robot object (the value of ret.value when a call returns no Robot).
NoObject == 0

\* The outcome of a call: error is None or the name of the raised exception,
\* value the index of the returned Robot, logged the severity logged by
\* log_token_time_remaining.
Outcome(op, args, error, value, logged) ==
    [op |-> op, args |-> args, error |-> error, value |-> value, logged |-> logged]

-----------------------------------------------------------------------------
(* Sdk.__init__ *)

\* A thread that is not inside create_robot and holds no Robot.
Idle ==
    [pc |-> "idle", address |-> None, name |-> None, robot |-> NoObject,
     value |-> NoObject, error |-> None, calls |-> 0]

Init ==
    /\ app_token = None
    /\ cert = CertNone
    /\ request_processors = <<>>
    /\ service_client_factories_by_type = EmptyDict
    /\ service_type_by_name = EmptyDict
    /\ robots = EmptyDict
    /\ objects = <<>>
    /\ ret = Outcome("__init__", <<>>, None, NoObject, None)
    /\ lastByType = EmptyDict
    /\ lastByName = EmptyDict
    /\ firstCreated = EmptyDict
    /\ ops = 0
    /\ threads = [t \in Threads |-> Idle]
    /\ lock = NoLock
    /\ DEFAULT_SERVICE_CLIENTS = DefaultServiceClients

\* Every action is one call by the one caller of the Sdk, which leaves the
\* module's list alone; a behaviour makes at most MaxOps calls.
Call ==
    /\ ops < MaxOps
    /\ ops' = ops + 1
    /\ UNCHANGED <<threads, lock, DEFAULT_SERVICE_CLIENTS>>

-----------------------------------------------------------------------------
(* Sdk.register_service_client *)

\* Mutant: the default name is the name of the class.
ResolveServiceName_class_name(creation_func, service_name) ==
    IF service_name # None THEN service_name ELSE creation_func.id

\* service_name or creation_func.default_service_name
ResolveServiceName(creation_func, service_name) ==
    IF service_name # None THEN service_name ELSE creation_func.default_service_name

\* Mutant: the service_type argument is ignored.
ResolveServiceType_ignored(creation_func, service_type) == creation_func.service_type

\* service_type or creation_func.service_type
ResolveServiceType(creation_func, service_type) ==
    IF service_type # None THEN service_type ELSE creation_func.service_type

\* The history of registrations after a call of register_service_client.
Registered(creation_func, service_type, service_name) ==
    LET name == Given(service_name, creation_func.default_service_name)
        type == Given(service_type, creation_func.service_type)
    IN  IF ret'.error = None
        THEN /\ lastByType' = Noted(lastByType, type, creation_func.id)
             /\ lastByName' = Noted(lastByName, name, [factory |-> creation_func.id, type |-> type])
        ELSE UNCHANGED <<lastByType, lastByName>>

\* Mutant: the name is stored before the type is looked up on creation_func.
register_service_client_half_written(creation_func, service_type, service_name) ==
    LET name == ResolveServiceName(creation_func, service_name)
        type == ResolveServiceType(creation_func, service_type)
        args == <<creation_func.id, service_type, service_name>>
    IN  /\ Call
        /\ IF name = NoAttr
           THEN /\ ret' = Outcome("register_service_client", args, "AttributeError", NoObject, None)
                /\ UNCHANGED <<service_type_by_name, service_client_factories_by_type>>
           ELSE IF type = NoAttr
           THEN /\ service_type_by_name' = SetItem(service_type_by_name, name, service_type)
                /\ ret' = Outcome("register_service_client", args, "AttributeError", NoObject, None)
                /\ UNCHANGED service_client_factories_by_type
           ELSE /\ service_type_by_name' = SetItem(service_type_by_name, name, type)
                /\ service_client_factories_by_type' =
                       SetItem(service_client_factories_by_type, type, creation_func.id)
                /\ ret' = Outcome("register_service_client", args, None, NoObject, None)
        /\ Registered(creation_func, service_type, service_name)
        /\ UNCHANGED <<app_token, cert, request_processors, robots, objects, firstCreated>>

register_service_client(creation_func, service_type, service_name) ==
    LET name == ResolveServiceName(creation_func, service_name)
        type == ResolveServiceType(creation_func, service_type)
        args == <<creation_func.id, service_type, service_name>>
    IN  /\ Call
        /\ IF name = NoAttr \/ type = NoAttr
           THEN /\ ret' = Outcome("register_service_client", args, "AttributeError", NoObject, None)
                /\ UNCHANGED <<service_type_by_name, service_client_factories_by_type>>
           ELSE /\ service_type_by_name' = SetItem(service_type_by_name, name, type)
                /\ service_client_factories_by_type' =
                       SetItem(service_client_factories_by_type, type, creation_func.id)
                /\ ret' = Outcome("register_service_client", args, None, NoObject, None)
        /\ Registered(creation_func, service_type, service_name)
        /\ UNCHANGED <<app_token, cert, request_processors, robots, objects, firstCreated>>

\* Lookups of a registered factory (Robot.ensure_client reads the two dicts).
resolve(type) ==
    IF type \in DOMAIN service_client_factories_by_type
    THEN service_client_factories_by_type[type]
    ELSE "UnknownServiceError"

resolveByName(name) ==
    IF name \in DOMAIN service_type_by_name
    THEN resolve(service_type_by_name[name])
    ELSE "UnknownServiceError"

-----------------------------------------------------------------------------
(* Sdk.request_processors.append *)

append_request_processor(p) ==
    /\ Call
    /\ Len(request_processors) < MaxProcessors
    /\ request_processors' = Append(request_processors, p)
    /\ ret' = Outcome("append", <<p>>, None, NoObject, None)
    /\ UNCHANGED <<app_token, cert, service_client_factories_by_type, service_type_by_name,
                   robots, objects, history>>

-----------------------------------------------------------------------------
(* Sdk.create_robot *)

\* Robot(name=...): a Robot with no settings yet.
Robot(name) ==
    [name |-> name, address |-> None, app_token |-> None, cert |-> CertNone,
     request_processors |-> <<>>, service_client_factories_by_type |-> EmptyDict,
     service_type_by_name |-> EmptyDict]

\* Robot.update_from(sdk): the Robot takes a copy of the Sdk's settings.
update_from(robot) ==
    [robot EXCEPT !.app_token = app_token,
                  !.cert = cert,
                  !.request_processors = request_processors,
                  !.service_client_factories_by_type = service_client_factories_by_type,
                  !.service_type_by_name = service_type_by_name]

\* name or address
RobotName(address, name) == IF name # None THEN name ELSE address

\* The settings of the Sdk as a Robot created now would copy them.
Settings(r) ==
    <<r.app_token, r.cert, r.request_processors, r.service_client_factories_by_type,
      r.service_type_by_name>>

SdkSettings ==
    <<app_token, cert, request_processors, service_client_factories_by_type,
      service_type_by_name>>

\* Mutant: the check of the app token is missing.
app_token_unset_unchecked == FALSE

\* if self.app_token is None
app_token_unset == app_token = None

\* Mutant: the cache is never consulted.
cached_never(address) == FALSE

\* if address in self.robots
cached(address) == address \in DOMAIN robots

\* Mutant: a cached Robot is brought up to date with the Sdk before it is returned.
return_cached_refreshed(address) ==
    [objects EXCEPT ![robots[address]] = update_from(@)]

\* return self.robots[address]: the Robot objects after a cached Robot is returned.
return_cached(address) == objects

\* Mutant: robot.update_from(self) is missing.
new_robot_blank(address, name) ==
    [Robot(RobotName(address, name)) EXCEPT !.address = address]

\* robot = Robot(name=name or address); robot.address = address; robot.update_from(self)
new_robot(address, name) ==
    update_from([Robot(RobotName(address, name)) EXCEPT !.address = address])

create_robot(address, name) ==
    /\ Call
    /\ IF app_token_unset
       THEN /\ ret' = Outcome("create_robot", <<address, name>>, "UnsetAppTokenError", NoObject, None)
            /\ UNCHANGED <<robots, objects>>
       ELSE IF cached(address)
       THEN /\ ret' = Outcome("create_robot", <<address, name>>, None, robots[address], None)
            /\ objects' = return_cached(address)
            /\ UNCHANGED robots
       ELSE LET robot == new_robot(address, name)
                id == Len(objects) + 1
            IN  /\ objects' = Append(objects, robot)
                /\ robots' = SetItem(robots, address, id)
                /\ ret' = Outcome("create_robot", <<address, name>>, None, id, None)
    /\ firstCreated' = IF ret'.error = None /\ address \notin DOMAIN firstCreated
                       THEN Noted(firstCreated, address, [value |-> ret'.value, name |-> name])
                       ELSE firstCreated
    /\ UNCHANGED <<app_token, cert, request_processors, service_client_factories_by_type,
                   service_type_by_name, lastByType, lastByName>>

-----------------------------------------------------------------------------
(* Sdk.load_robot_cert *)

\* pkg_resources.resource_stream('bosdyn.client.resources', 'robot.pem').read()
DefaultCert == <<0>>

\* The directory entries a glob can match: regular files with their bytes,
\* and a directory.
CertEntries == {"cert1.pem", "cert2.pem", "certs.d"}
isfile(c) == c \in {"cert1.pem", "cert2.pem"}
FileBytes(c) == IF c = "cert1.pem" THEN <<1>> ELSE <<2>>

\* The glob expressions of the model and the entries each matches.
Globs == {"cert*", "*.d", "none*"}
GlobMatches(g) ==
    IF g = "cert*" THEN CertEntries
    ELSE IF g = "*.d" THEN {"certs.d"}
    ELSE {}

\* glob.glob lists the matches in the order the file system enumerates them,
\* which is any order.
glob(g) ==
    LET S == GlobMatches(g)
    IN  { q \in [1..Cardinality(S) -> S] : \A i, j \in 1..Cardinality(S) : q[i] = q[j] => i = j }

\* for cert_path in cert_paths: self.cert += cert_file.read()
RECURSIVE ReadAll(_)
ReadAll(cert_paths) ==
    IF cert_paths = <<>> THEN <<>>
    ELSE FileBytes(Head(cert_paths)) \o ReadAll(Tail(cert_paths))

\* Mutant: with no file matched, the packaged certificate is loaded.
load_robot_cert_fallback(resource_path_glob, listing) ==
    /\ Call
    /\ IF resource_path_glob = None
       THEN /\ cert' = Bytes(DefaultCert)
            /\ ret' = Outcome("load_robot_cert", <<resource_path_glob>>, None, NoObject, None)
       ELSE LET cert_paths == SelectSeq(listing, isfile)
            IN  IF cert_paths = <<>>
                THEN /\ cert' = Bytes(DefaultCert)
                     /\ ret' = Outcome("load_robot_cert", <<resource_path_glob>>, None, NoObject, None)
                ELSE /\ cert' = Bytes(ReadAll(cert_paths))
                     /\ ret' = Outcome("load_robot_cert", <<resource_path_glob>>, None, NoObject, None)
    /\ UNCHANGED <<app_token, request_processors, service_client_factories_by_type,
                   service_type_by_name, robots, objects, history>>

\* Mutant: self.cert is left alone until the files are read.
load_robot_cert_kept(resource_path_glob, listing) ==
    /\ Call
    /\ IF resource_path_glob = None
       THEN /\ cert' = Bytes(DefaultCert)
            /\ ret' = Outcome("load_robot_cert", <<resource_path_glob>>, None, NoObject, None)
       ELSE LET cert_paths == SelectSeq(listing, isfile)
            IN  IF cert_paths = <<>>
                THEN /\ cert' = cert
                     /\ ret' = Outcome("load_robot_cert", <<resource_path_glob>>, "IOError", NoObject, None)
                ELSE /\ cert' = Bytes(ReadAll(cert_paths))
                     /\ ret' = Outcome("load_robot_cert", <<resource_path_glob>>, None, NoObject, None)
    /\ UNCHANGED <<app_token, request_processors, service_client_factories_by_type,
                   service_type_by_name, robots, objects, history>>

load_robot_cert(resource_path_glob, listing) ==
    /\ Call
    /\ IF resource_path_glob = None
       THEN /\ cert' = Bytes(DefaultCert)
            /\ ret' = Outcome("load_robot_cert", <<resource_path_glob>>, None, NoObject, None)
       ELSE LET cert_paths == SelectSeq(listing, isfile)
            IN  IF cert_paths = <<>>
                THEN /\ cert' = CertNone
                     /\ ret' = Outcome("load_robot_cert", <<resource_path_glob>>, "IOError", NoObject, None)
                ELSE /\ cert' = Bytes(ReadAll(cert_paths))
                     /\ ret' = Outcome("load_robot_cert", <<resource_path_glob>>, None, NoObject, None)
    /\ UNCHANGED <<app_token, request_processors, service_client_factories_by_type,
                   service_type_by_name, robots, objects, history>>

-----------------------------------------------------------------------------
(* Sdk.load_app_token, decode_token, log_token_time_remaining *)

\* The resource_path arguments of the model: None (or ''), an object that is
\* no path, and paths of files.
TokenPaths ==
    {None, "NotAPath", "missing.token", "denied.token", "binary.token",
     "garbage.token", "noexp.token", "a.token", "b.token"}

\* open(...) raises IOError for these.
Unreadable == {"missing.token", "denied.token"}

\* token_file.read().decode().strip(): the text of a readable file, or
\* UnicodeDecodeError.
FileToken(path) ==
    IF path = "binary.token" THEN "UnicodeDecodeError"
    ELSE IF path = "garbage.token" THEN "garbage"
    ELSE IF path = "noexp.token" THEN "tokNoExp"
    ELSE IF path = "a.token" THEN "tokA"
    ELSE "tokB"

ThirtyDays == 30 * 86400
ExpA == 100 * 86400
ExpB == 500 * 86400

\* jwt.decode(token, verify=False): the claims, or a decode error.
decode_token(token) ==
    IF token = "garbage" THEN [error |-> "UnableToLoadAppTokenError", has_exp |-> FALSE, exp |-> 0]
    ELSE IF token = "tokNoExp" THEN [error |-> None, has_exp |-> FALSE, exp |-> 0]
    ELSE IF token = "tokA" THEN [error |-> None, has_exp |-> TRUE, exp |-> ExpA]
    ELSE [error |-> None, has_exp |-> TRUE, exp |-> ExpB]

\* The readings of the clock (datetime.utcnow(), in seconds since the epoch)
\* and the offsets of local time from UTC, in seconds.
Clock == {ExpA - ThirtyDays, ExpA + 1}
UtcOffsets == {0, 3600}

\* The severity at which the time to expiration is logged.
\* datetime.fromtimestamp gives local time, datetime.utcnow gives UTC.
time_to_expiration_severity(exp, now, utcoffset) ==
    LET expire_time == exp + utcoffset
        time_to_expiration == expire_time - now
    IN  IF time_to_expiration < 0 THEN "error"
        ELSE IF time_to_expiration <= ThirtyDays THEN "warning"
        ELSE "info"

\* Mutant: a missing exp claim is read as 0 (token_values.get('exp', 0)).
log_token_time_remaining_exp_defaulted(token, now, utcoffset) ==
    LET token_values == decode_token(token)
    IN  IF token_values.error # None THEN [error |-> token_values.error, logged |-> None]
        ELSE [error |-> None,
              logged |-> time_to_expiration_severity(token_values.exp, now, utcoffset)]

\* Mutant: an expired token is refused.
log_token_time_remaining_expired_refused(token, now, utcoffset) ==
    LET token_values == decode_token(token)
        logged == time_to_expiration_severity(token_values.exp, now, utcoffset)
    IN  IF token_values.error # None THEN [error |-> token_values.error, logged |-> None]
        ELSE IF ~token_values.has_exp THEN [error |-> "UnableToLoadAppTokenError", logged |-> None]
        ELSE IF logged = "error" THEN [error |-> "UnableToLoadAppTokenError", logged |-> logged]
        ELSE [error |-> None, logged |-> logged]

\* The exception raised (None if none) and the severity logged.
log_token_time_remaining(token, now, utcoffset) ==
    LET token_values == decode_token(token)
    IN  IF token_values.error # None THEN [error |-> token_values.error, logged |-> None]
        ELSE IF ~token_values.has_exp THEN [error |-> "UnableToLoadAppTokenError", logged |-> None]
        ELSE [error |-> None,
              logged |-> time_to_expiration_severity(token_values.exp, now, utcoffset)]

\* Mutant: the token is cleared before the load, as load_robot_cert clears the cert.
load_app_token_cleared(resource_path, now, utcoffset) ==
    LET Raise(e, logged) ==
            /\ ret' = Outcome("load_app_token", <<resource_path>>, e, NoObject, logged)
            /\ app_token' = None
    IN  /\ Call
        /\ IF resource_path = None THEN Raise("UnsetAppTokenError", None)
           ELSE IF resource_path = "NotAPath" THEN Raise("UnsetAppTokenError", None)
           ELSE IF resource_path \in Unreadable THEN Raise("UnableToLoadAppTokenError", None)
           ELSE LET token == FileToken(resource_path)
                    r == log_token_time_remaining(token, now, utcoffset)
                IN  IF token = "UnicodeDecodeError" THEN Raise("UnicodeDecodeError", None)
                    ELSE IF r.error # None THEN Raise(r.error, None)
                    ELSE /\ app_token' = token
                         /\ ret' = Outcome("load_app_token", <<resource_path>>, None, NoObject, r.logged)
        /\ UNCHANGED <<cert, request_processors, service_client_factories_by_type,
                       service_type_by_name, robots, objects, history>>

load_app_token(resource_path, now, utcoffset) ==
    LET Raise(e, logged) ==
            /\ ret' = Outcome("load_app_token", <<resource_path>>, e, NoObject, logged)
            /\ UNCHANGED app_token
    IN  /\ Call
        /\ IF resource_path = None THEN Raise("UnsetAppTokenError", None)
           ELSE IF resource_path = "NotAPath" THEN Raise("UnsetAppTokenError", None)
           ELSE IF resource_path \in Unreadable THEN Raise("UnableToLoadAppTokenError", None)
           ELSE LET token == FileToken(resource_path)
                    r == log_token_time_remaining(token, now, utcoffset)
                IN  IF token = "UnicodeDecodeError" THEN Raise("UnicodeDecodeError", None)
                    ELSE IF r.error # None THEN Raise(r.error, None)
                    ELSE /\ app_token' = token
                         /\ ret' = Outcome("load_app_token", <<resource_path>>, None, NoObject, r.logged)
        /\ UNCHANGED <<cert, request_processors, service_client_factories_by_type,
                       service_type_by_name, robots, objects, history>>

-----------------------------------------------------------------------------

Next ==
    \/ \E f \in CreationFuncs, t \in ServiceTypes \cup {None}, n \in ServiceNames \cup {None} :
           register_service_client(f, t, n)
    \/ \E p \in Processors : append_request_processor(p)
    \/ \E a \in Addresses, n \in RobotNames \cup {None} : create_robot(a, n)
    \/ load_robot_cert(None, <<>>)
    \/ \E g \in Globs : \E listing \in glob(g) : load_robot_cert(g, listing)
    \/ \E path \in TokenPaths, now \in Clock, utcoffset \in UtcOffsets :
           load_app_token(path, now, utcoffset)

Spec == Init /\ [][Next]_vars

-----------------------------------------------------------------------------
(* log_token_time_remaining on its own, at the boundaries of its classes *)

\* Seconds on either side of a boundary.
MaxSkew == 3

\* The exp claims of the tokens.
Exps == {ExpA, ExpB}

\* The times left (exp - now) of the calls: around 0 and around 30 days, and
\* around those shifted by an offset of local time.
Remainings ==
    { b - o + k : b \in {0, ThirtyDays}, o \in UtcOffsets, k \in (0 - MaxSkew)..MaxSkew }

\* log_token_time_remaining(token) for a token with this exp claim, called at now.
check_expiry(exp, now, utcoffset) ==
    /\ ret' = Outcome("log_token_time_remaining", <<exp, now, utcoffset>>, None, NoObject,
                      time_to_expiration_severity(exp, now, utcoffset))
    /\ UNCHANGED <<app_token, cert, request_processors, service_client_factories_by_type,
                   service_type_by_name, robots, objects, history, ops,
                   threads, lock, DEFAULT_SERVICE_CLIENTS>>

NextExpiry ==
    \E exp \in Exps, r \in Remainings, utcoffset \in UtcOffsets :
        check_expiry(exp, exp - r, utcoffset)

SpecExpiry == Init /\ [][NextExpiry]_vars

-----------------------------------------------------------------------------
(* Sdk.create_robot called by threads, statement by statement *)

\* Calls of create_robot by one thread.
MaxThreadCalls == 1

\* The Sdk holds a token or not; create_robot is called as it is (no lock)
\* or by callers that take a lock around the call.
InitThreads ==
    /\ app_token \in {None, "tokA"}
    /\ cert = CertNone
    /\ request_processors = <<>>
    /\ service_client_factories_by_type = EmptyDict
    /\ service_type_by_name = EmptyDict
    /\ robots = EmptyDict
    /\ objects = <<>>
    /\ ret = Outcome("__init__", <<>>, None, NoObject, None)
    /\ lastByType = EmptyDict
    /\ lastByName = EmptyDict
    /\ firstCreated = EmptyDict
    /\ ops = 0
    /\ threads = [t \in Threads |-> Idle]
    /\ lock \in {NoLock, Free}
    /\ DEFAULT_SERVICE_CLIENTS = DefaultServiceClients

\* What a step of a thread leaves alone.
ThreadFrame ==
    UNCHANGED <<app_token, cert, request_processors, service_client_factories_by_type,
                service_type_by_name, ret, history, ops, DEFAULT_SERVICE_CLIENTS>>

\* The lock after the thread that may hold it has left create_robot.
Released == IF lock = NoLock THEN NoLock ELSE Free

\* The thread calls create_robot(address, name), taking the lock if there is one.
thread_call(t, address, name) ==
    /\ threads[t].pc \in {"idle", "returned"}
    /\ threads[t].calls < MaxThreadCalls
    /\ lock \in {NoLock, Free}
    /\ lock' = IF lock = NoLock THEN NoLock ELSE t
    /\ threads' = [threads EXCEPT ![t] =
           [pc |-> "check_token", address |-> address, name |-> name, robot |-> NoObject,
            value |-> NoObject, error |-> None, calls |-> @.calls + 1]]
    /\ UNCHANGED <<robots, objects>>
    /\ ThreadFrame

\* if self.app_token is None: raise UnsetAppTokenError
thread_check_token(t) ==
    /\ threads[t].pc = "check_token"
    /\ IF app_token_unset
       THEN /\ threads' = [threads EXCEPT ![t].pc = "returned", ![t].error = "UnsetAppTokenError"]
            /\ lock' = Released
       ELSE /\ threads' = [threads EXCEPT ![t].pc = "check_cache"]
            /\ UNCHANGED lock
    /\ UNCHANGED <<robots, objects>>
    /\ ThreadFrame

\* if address in self.robots: return self.robots[address]
thread_check_cache(t) ==
    /\ threads[t].pc = "check_cache"
    /\ IF cached(threads[t].address)
       THEN /\ threads' = [threads EXCEPT ![t].pc = "returned",
                                          ![t].value = robots[threads[t].address]]
            /\ objects' = return_cached(threads[t].address)
            /\ lock' = Released
       ELSE /\ threads' = [threads EXCEPT ![t].pc = "construct"]
            /\ UNCHANGED <<objects, lock>>
    /\ UNCHANGED robots
    /\ ThreadFrame

\* robot = Robot(name=name or address); robot.address = address; robot.update_from(self)
thread_construct(t) ==
    /\ threads[t].pc = "construct"
    /\ objects' = Append(objects, new_robot(threads[t].address, threads[t].name))
    /\ threads' = [threads EXCEPT ![t].pc = "insert", ![t].robot = Len(objects) + 1]
    /\ UNCHANGED <<robots, lock>>
    /\ ThreadFrame

\* self.robots[address] = robot; return robot
thread_insert(t) ==
    /\ threads[t].pc = "insert"
    /\ robots' = SetItem(robots, threads[t].address, threads[t].robot)
    /\ threads' = [threads EXCEPT ![t].pc = "returned", ![t].value = threads[t].robot]
    /\ lock' = Released
    /\ UNCHANGED objects
    /\ ThreadFrame

NextThreads ==
    \/ \E t \in Threads, a \in Addresses, n \in RobotNames \cup {None} : thread_call(t, a, n)
    \/ \E t \in Threads : thread_check_token(t)
    \/ \E t \in Threads : thread_check_cache(t)
    \/ \E t \in Threads : thread_construct(t)
    \/ \E t \in Threads : thread_insert(t)

SpecThreads == InitThreads /\ [][NextThreads]_vars

-----------------------------------------------------------------------------
(* create_standard_sdk *)

\* The longest the module's list of service clients grows.
MaxClients == 4

\* A service client that has neither default_service_name nor service_type.
NotAClient == [id |-> "function", default_service_name |-> NoAttr, service_type |-> NoAttr]

\* The service_clients argument: None or an empty list (<<>>), or a list.
ServiceClientLists ==
    {<<>>} \cup { <<f>> : f \in ExtensionClients \cup {NotAClient} }
           \cup { <<f, g>> : f, g \in ExtensionClients }

\* The classes of a list of service clients.
Ids(clients) == [i \in DOMAIN clients |-> clients[i].id]

\* for client in all_service_clients: sdk.register_service_client(client),
\* from the registry of a new Sdk; the loop ends at the first client that raises.
RECURSIVE RegisterAll(_, _, _)
RegisterAll(clients, by_name, by_type) ==
    IF clients = <<>>
    THEN [error |-> None, by_name |-> by_name, by_type |-> by_type]
    ELSE LET creation_func == Head(clients)
             name == ResolveServiceName(creation_func, None)
             type == ResolveServiceType(creation_func, None)
         IN  IF name = NoAttr \/ type = NoAttr
             THEN [error |-> "AttributeError", by_name |-> by_name, by_type |-> by_type]
             ELSE RegisterAll(Tail(clients), SetItem(by_name, name, type),
                              SetItem(by_type, type, creation_func.id))

\* all_service_clients = _DEFAULT_SERVICE_CLIENTS; all_service_clients += service_clients
\* (the same list object, lengthened in place).
all_service_clients(service_clients) ==
    IF service_clients # <<>> THEN DEFAULT_SERVICE_CLIENTS \o service_clients
    ELSE DEFAULT_SERVICE_CLIENTS

\* create_standard_sdk(client_name_prefix, service_clients, cert_resource_glob).
\* The Sdk variables are those of the Sdk it returns; when it raises, no Sdk
\* is returned and the caller has the one it had.
create_standard_sdk(service_clients, cert_resource_glob, listing) ==
    LET args == <<Ids(service_clients), cert_resource_glob>>
        cert_paths == SelectSeq(listing, isfile)
        all == all_service_clients(service_clients)
        registry == RegisterAll(all, EmptyDict, EmptyDict)
        kept == UNCHANGED <<app_token, cert, request_processors, robots, objects,
                            service_type_by_name, service_client_factories_by_type>>
    IN  /\ Len(DEFAULT_SERVICE_CLIENTS) + Len(service_clients) <= MaxClients
        /\ IF cert_resource_glob # None /\ cert_paths = <<>>
           THEN /\ ret' = Outcome("create_standard_sdk", args, "IOError", NoObject, None)
                /\ kept
                /\ UNCHANGED DEFAULT_SERVICE_CLIENTS
           ELSE /\ DEFAULT_SERVICE_CLIENTS' = all
                /\ IF registry.error # None
                   THEN /\ ret' = Outcome("create_standard_sdk", args, registry.error, NoObject, None)
                        /\ kept
                   ELSE /\ app_token' = None
                        /\ cert' = IF cert_resource_glob = None THEN Bytes(DefaultCert)
                                   ELSE Bytes(ReadAll(cert_paths))
                        /\ request_processors' = <<"AddRequestHeader">>
                        /\ service_type_by_name' = registry.by_name
                        /\ service_client_factories_by_type' = registry.by_type
                        /\ robots' = EmptyDict
                        /\ objects' = <<>>
                        /\ ret' = Outcome("create_standard_sdk", args, None, NoObject, None)
        /\ UNCHANGED <<history, ops, threads, lock>>

NextStandard ==
    \E service_clients \in ServiceClientLists, g \in Globs \cup {None} :
        \E listing \in (IF g = None THEN {<<>>} ELSE glob(g)) :
            create_standard_sdk(service_clients, g, listing)

SpecStandard == Init /\ [][NextStandard]_vars

-----------------------------------------------------------------------------
(* Robot creation *)

\* C1: once create_robot(a, n1) has succeeded for an address a, the cache
\* holds for a the Robot that call returned, that Robot's name is still n1
\* (a itself when n1 was omitted), and every later create_robot(a, n2)
\* succeeds and returns that same Robot, whatever was called in between.
C1_IdempotentCreation ==
    /\ \A a \in DOMAIN firstCreated :
           LET first == firstCreated[a]
           IN  /\ a \in DOMAIN robots
               /\ robots[a] = first.value
               /\ objects[first.value].name = (IF first.name = None THEN a ELSE first.name)
    /\ ret.op = "create_robot" =>
           IF ret.error = None
           THEN ret.value = firstCreated[ret.args[1]].value
           ELSE ret.args[1] \notin DOMAIN firstCreated

\* A repeat create_robot under another name returned the first Robot after
\* the Sdk's settings had changed.
C1_Witness ==
    /\ ret.op = "create_robot"
    /\ ret.error = None
    /\ ret.args[2] # firstCreated[ret.args[1]].name
    /\ ret.value = firstCreated[ret.args[1]].value
    /\ Settings(objects[ret.value]) # SdkSettings

\* C2: no call on the Sdk changes a Robot that already exists: every Robot
\* keeps the settings (and name and address) it was created with.
C2_SnapshotFrame ==
    [][\A i \in DOMAIN objects : i \in DOMAIN objects' /\ objects'[i] = objects[i]]_vars

\* Two Robots exist: the first still has settings that the Sdk no longer
\* has, the second has the Sdk's present ones.
C2_Witness ==
    /\ Len(objects) = 2
    /\ Settings(objects[1]) # Settings(objects[2])
    /\ Settings(objects[2]) = SdkSettings

\* C3: a create_robot for an address that is not cached (with an app token
\* set) returns a new Robot that has that address, is cached under it, and
\* holds the Sdk's registry, token, certificate and processors as they were
\* at the call; its registry has the latest factory of every registered type.
C3_NewRobotSnapshot ==
    [][(/\ ret'.op = "create_robot"
        /\ ret'.error = None
        /\ ret'.args[1] \notin DOMAIN robots)
       => LET a == ret'.args[1]
              h == ret'.value
          IN  /\ h \notin DOMAIN objects
              /\ h \in DOMAIN objects'
              /\ objects'[h].address = a
              /\ a \in DOMAIN robots'
              /\ robots'[a] = h
              /\ Settings(objects'[h]) = SdkSettings
              /\ \A t \in DOMAIN lastByType :
                     /\ t \in DOMAIN objects'[h].service_client_factories_by_type
                     /\ objects'[h].service_client_factories_by_type[t] = lastByType[t]]_vars

\* A Robot was created after a registration and the load of a token.
C3_Witness ==
    /\ ret.op = "create_robot"
    /\ ret.error = None
    /\ ret.value = Len(objects)
    /\ objects[ret.value].service_client_factories_by_type # EmptyDict
    /\ objects[ret.value].app_token # None

\* C4: create_robot on an Sdk whose app token is not set raises
\* UnsetAppTokenError, returns no Robot and leaves the Robots and the cache
\* as they were.
C4_CreateWithoutToken ==
    [][(ret'.op = "create_robot" /\ app_token = None)
       => /\ ret'.error = "UnsetAppTokenError"
          /\ ret'.value = NoObject
          /\ UNCHANGED <<robots, objects>>]_vars

\* A create_robot failed for lack of a token, after a load of a token that
\* failed too.
C4_Witness ==
    /\ ret.op = "create_robot"
    /\ ret.error = "UnsetAppTokenError"
    /\ app_token = None
    /\ ops >= 2
    /\ robots = EmptyDict

-----------------------------------------------------------------------------
(* The registry *)

\* The creation_func of a call, from its id in ret.args.
FuncOf(id) == CHOOSE f \in CreationFuncs : f.id = id

\* A call register_service_client(f, t, n) lacks a name or a type: one is
\* omitted and f has no default for it.
Lacking(f, t, n) ==
    \/ n = None /\ f.default_service_name = NoAttr
    \/ t = None /\ f.service_type = NoAttr

\* C5: right after register_service_client(f) with the name omitted (the
\* type omitted or given), for an f that has a default name and a type to
\* register under, the call has not failed and resolve(type) and
\* resolveByName(f.default_service_name) are both f: the name leads to the
\* type and the type to f.
C5_DefaultNameResolves ==
    ret.op = "register_service_client" =>
        LET f == FuncOf(ret.args[1])
            t == Given(ret.args[2], f.service_type)
            n == f.default_service_name
        IN  (ret.args[3] = None /\ n # NoAttr /\ t # NoAttr) =>
                /\ ret.error = None
                /\ n \in DOMAIN service_type_by_name
                /\ service_type_by_name[n] = t
                /\ resolve(t) = f.id
                /\ resolveByName(n) = f.id

\* A factory was registered by its default name under a type given in the
\* call that is not its own.
C5_Witness ==
    /\ ret.op = "register_service_client"
    /\ ret.error = None
    /\ ret.args[3] = None
    /\ ret.args[2] # None
    /\ ret.args[2] # FuncOf(ret.args[1]).service_type
    /\ resolveByName(FuncOf(ret.args[1]).default_service_name) = ret.args[1]

\* C6: a register_service_client that has a name and a type never fails,
\* whether or not the type is registered already, and resolve(t) is the
\* factory of the latest registration whose type was t (and fails for a
\* type never registered).
C6_LastWriteWinsByType ==
    /\ \A t \in ServiceTypes :
           IF t \in DOMAIN lastByType
           THEN resolve(t) = lastByType[t]
           ELSE resolve(t) = "UnknownServiceError"
    /\ ret.op = "register_service_client" =>
           (ret.error = None <=> ~Lacking(FuncOf(ret.args[1]), ret.args[2], ret.args[3]))

\* A type was registered again with another factory, which resolve returns.
C6_Witness ==
    /\ ret.op = "register_service_client"
    /\ ret.error = None
    /\ ops >= 2
    /\ \E t \in DOMAIN lastByType, n \in DOMAIN lastByName :
           /\ lastByName[n].type = t
           /\ lastByName[n].factory # lastByType[t]
           /\ resolve(t) = ret.args[1]

\* C7 as claimed: resolveByName(n) is the factory of the latest registration
\* whose name was n.
C7_LastWriteWinsByName ==
    \A n \in DOMAIN lastByName : resolveByName(n) = lastByName[n].factory

\* C7 as amended: a name leads to the type of the latest registration of
\* that name, and resolveByName(n) is the factory of the latest registration
\* of that type, under whatever name it was made.
C7_NameResolvesThroughType ==
    /\ DOMAIN service_type_by_name = DOMAIN lastByName
    /\ \A n \in DOMAIN lastByName :
           /\ service_type_by_name[n] = lastByName[n].type
           /\ resolveByName(n) = lastByType[lastByName[n].type]

\* A name resolves to a factory that was never registered under it: a later
\* registration of its type under another name replaced the factory.
C7_Witness ==
    \E n \in DOMAIN lastByName :
        /\ resolveByName(n) # lastByName[n].factory
        /\ resolveByName(n) = lastByType[lastByName[n].type]

\* C8: no call removes a name or a type from the registry: what resolves
\* in a state resolves in the next.
C8_RegistryGrows ==
    [][/\ DOMAIN service_type_by_name \subseteq DOMAIN service_type_by_name'
       /\ DOMAIN service_client_factories_by_type \subseteq DOMAIN service_client_factories_by_type'
       /\ \A n \in ServiceNames :
              resolveByName(n) # "UnknownServiceError" => resolveByName(n)' # "UnknownServiceError"
       /\ \A t \in ServiceTypes :
              resolve(t) # "UnknownServiceError" => resolve(t)' # "UnknownServiceError"]_vars

\* Two names and two types are registered, after at least three calls.
C8_Witness ==
    /\ ret.op = "register_service_client"
    /\ ret.error = None
    /\ ops >= 3
    /\ DOMAIN service_type_by_name = ServiceNames
    /\ DOMAIN service_client_factories_by_type = ServiceTypes

\* C9: a register_service_client that omits a name or a type for which the
\* creation_func has no default raises (AttributeError) and changes neither
\* the names nor the types of the registry.
C9_FailedRegistration ==
    [][ret'.op = "register_service_client" =>
           (Lacking(FuncOf(ret'.args[1]), ret'.args[2], ret'.args[3]) =>
                /\ ret'.error = "AttributeError"
                /\ UNCHANGED <<service_type_by_name, service_client_factories_by_type>>)]_vars

\* A registration that gave a name but no type failed for the lack of a
\* default type, on a registry that is not empty.
C9_Witness ==
    /\ ret.op = "register_service_client"
    /\ ret.error = "AttributeError"
    /\ ret.args[3] # None
    /\ ret.args[3] \notin DOMAIN service_type_by_name
    /\ service_type_by_name # EmptyDict

-----------------------------------------------------------------------------
(* The app token *)

\* C10: load_app_token raises UnsetAppTokenError for an empty or absent path
\* and UnableToLoadAppTokenError for the path of a file that cannot be
\* opened, and leaves the app token as it was in both cases.
C10_FailedTokenLoad ==
    [][ret'.op = "load_app_token" =>
           /\ ret'.args[1] = None =>
                  ret'.error = "UnsetAppTokenError" /\ app_token' = app_token
           /\ ret'.args[1] \in {"missing.token", "denied.token"} =>
                  ret'.error = "UnableToLoadAppTokenError" /\ app_token' = app_token]_vars

\* A load from a missing file failed on an Sdk that holds a token.
C10_Witness ==
    /\ ret.op = "load_app_token"
    /\ ret.args[1] = "missing.token"
    /\ ret.error = "UnableToLoadAppTokenError"
    /\ app_token # None

-----------------------------------------------------------------------------
(* The certificate *)

\* The regular files a glob matches.
MatchedFiles(g) == { c \in GlobMatches(g) : isfile(c) }

\* C13: load_robot_cert with a glob that matches no regular file raises
\* (IOError) and does not load the packaged certificate instead: afterwards
\* the cert is the packaged one only if it was before.
C13_NoFallback ==
    [][(ret'.op = "load_robot_cert" /\ ret'.args[1] # None /\ MatchedFiles(ret'.args[1]) = {})
       => /\ ret'.error = "IOError"
          /\ cert' = Bytes(DefaultCert) => cert = Bytes(DefaultCert)]_vars

\* A load with a glob that matches a directory only failed, after a Robot
\* was created with the certificates of an earlier load with a glob.
C13_Witness ==
    /\ ret.op = "load_robot_cert"
    /\ ret.args[1] = "*.d"
    /\ ret.error = "IOError"
    /\ cert # Bytes(DefaultCert)
    /\ Len(objects) = 1
    /\ objects[1].cert \notin {CertNone, Bytes(DefaultCert)}

\* The paths of the model in lexicographic order.
PathOrder == <<"cert1.pem", "cert2.pem", "certs.d">>

\* The bytes of a set of files joined in the order of their paths.
JoinedInPathOrder(files) == ReadAll(SelectSeq(PathOrder, LAMBDA c : c \in files))

\* C14: after load_robot_cert with a glob that matches regular files, the
\* cert is the bytes of those files joined in the lexicographic order of
\* their paths, whatever the order in which the glob listed them.
C14_PathOrder ==
    (ret.op = "load_robot_cert" /\ ret.error = None /\ ret.args[1] # None) =>
        cert = Bytes(JoinedInPathOrder(MatchedFiles(ret.args[1])))

\* C19 as claimed: a load_robot_cert that fails on an Sdk that holds a cert
\* leaves the cert as it was.
C19_FailedLoadKeepsCert ==
    [][(ret'.op = "load_robot_cert" /\ ret'.error # None /\ cert # CertNone)
       => cert' = cert]_vars

\* C19 as amended: a load_robot_cert that fails leaves the Sdk with no cert,
\* whatever it held, and a Robot created next has no cert.
C19_FailedLoadClearsCert ==
    /\ [](ret.op = "load_robot_cert" /\ ret.error # None => cert = CertNone)
    /\ [][(/\ ret.op = "load_robot_cert"
           /\ ret.error # None
           /\ ret'.op = "create_robot"
           /\ ret'.error = None
           /\ ret'.value \notin DOMAIN objects)
          => objects'[ret'.value].cert = CertNone]_vars

\* A load failed and left no cert on an Sdk that had held one, as the Robot
\* created with it shows.
C19_Witness ==
    /\ ret.op = "load_robot_cert"
    /\ ret.error = "IOError"
    /\ cert = CertNone
    /\ Len(objects) = 1
    /\ objects[1].cert # CertNone

-----------------------------------------------------------------------------
(* Expiry *)

\* C12: log_token_time_remaining does not raise and logs by exp - now, the
\* time left in whole seconds: at error severity if it is negative, at
\* warning severity if it is from 0 to 30 days, both included, and at
\* informational severity if it is more.
C12_ExactBoundaries ==
    ret.op = "log_token_time_remaining" =>
        LET remaining == ret.args[1] - ret.args[2]
        IN  /\ ret.error = None
            /\ ret.logged = (IF remaining < 0 THEN "error"
                             ELSE IF remaining <= ThirtyDays THEN "warning"
                             ELSE "info")

\* C16: the load of a well-formed token succeeds and stores the token
\* whatever the clock reads, also when the token has expired and the expiry is
\* logged at error severity; and create_robot on an Sdk that holds a token
\* succeeds, whichever token it is.
C16_ExpiryNotFatal ==
    [][/\ (ret'.op = "load_app_token" /\ ret'.args[1] \in {"a.token", "b.token"}) =>
              /\ ret'.error = None
              /\ ret'.logged \in {"error", "warning", "info"}
              /\ app_token' = (IF ret'.args[1] = "a.token" THEN "tokA" ELSE "tokB")
       /\ (ret'.op = "create_robot" /\ app_token # None) =>
              /\ ret'.error = None
              /\ ret'.value \in DOMAIN objects'
              /\ objects'[ret'.value].address = ret'.args[1]]_vars

\* The load of an expired token logged the expiry and stored the token.
C16_Witness ==
    /\ ret.op = "load_app_token"
    /\ ret.logged = "error"
    /\ ret.error = None
    /\ app_token = "tokA"

-----------------------------------------------------------------------------
(* The cache and the app token *)

\* C17: an Sdk that has Robots in its cache has an app token; no call unsets
\* a token that is set; so a create_robot that fails for lack of a token is
\* never for a cached address.
C17_CacheImpliesToken ==
    /\ [](/\ robots # EmptyDict => app_token # None
          /\ (ret.op = "create_robot" /\ ret.error = "UnsetAppTokenError") =>
                 ret.args[1] \notin DOMAIN robots)
    /\ [][app_token # None => app_token' # None]_vars

\* A load of a token failed on an Sdk with a Robot in its cache.
C17_Witness ==
    /\ ret.op = "load_app_token"
    /\ ret.error # None
    /\ robots # EmptyDict
    /\ app_token # None

-----------------------------------------------------------------------------
(* Threads *)

\* Two threads have returned from create_robot for the same address, each
\* with a Robot, and the Robots are two.
Duplicates ==
    \E t1, t2 \in Threads :
        /\ threads[t1].pc = "returned" /\ threads[t1].error = None
        /\ threads[t2].pc = "returned" /\ threads[t2].error = None
        /\ threads[t1].address = threads[t2].address
        /\ threads[t1].value # threads[t2].value

\* C15: when the callers of create_robot take a lock around the call, two
\* threads never hold two Robots for one address; a Robot that a thread has
\* been returned has the address asked for, and the cache holds for an
\* address a Robot made for it.  (Without the lock the two Robots are
\* reachable: C15_Witness.)
C15_AtomicNoDuplicates ==
    /\ lock # NoLock => ~Duplicates
    /\ \A t \in Threads :
           (threads[t].pc = "returned" /\ threads[t].error = None) =>
               /\ threads[t].value \in DOMAIN objects
               /\ objects[threads[t].value].address = threads[t].address
               /\ threads[t].address \in DOMAIN robots
    /\ \A a \in DOMAIN robots : robots[a] \in DOMAIN objects /\ objects[robots[a]].address = a

\* Without a lock, both threads passed the check of the cache before either
\* stored its Robot: they hold two Robots for one address, and the cache
\* holds the one stored last.
C15_Witness ==
    /\ lock = NoLock
    /\ Duplicates
    /\ \A t \in Threads : threads[t].pc = "returned" /\ threads[t].robot = threads[t].value
    /\ \E t \in Threads : robots[threads[t].address] = threads[t].value

-----------------------------------------------------------------------------
(* The standard Sdk *)

\* The classes the registry of the Sdk holds.
RegisteredIds ==
    { service_client_factories_by_type[t] : t \in DOMAIN service_client_factories_by_type }

\* C18: the registry of an Sdk that create_standard_sdk returns holds the
\* default service clients and the service clients given to that call, and
\* no other.
C18_StandardSdkIndependent ==
    (ret.op = "create_standard_sdk" /\ ret.error = None) =>
        RegisteredIds = { DefaultServiceClients[i].id : i \in DOMAIN DefaultServiceClients }
                        \cup { ret.args[1][i] : i \in DOMAIN ret.args[1] }

====
